---------------------------- MODULE Spec2Model ----------------------------
(***************************************************************************)
(* AISH command resolution: parser.parse_command (the tiered matcher),     *)
(* the difflib similarity it relies on, and aish.resolve_and_run with the  *)
(* two history files.                                                      *)
(*                                                                         *)
(* Python strings are TLA+ strings (Len, SubSeq and \o act on them).       *)
(* An optional value (a dict.get that may give None) is a sequence of      *)
(* length 0 (None) or 1 (the value).                                       *)
(***************************************************************************)
EXTENDS Integers, Sequences, FiniteSets, TLC

VARIABLES
    commands_json,   \* aish.py:78   command key -> (os id -> shell template)
    patterns_json,   \* aish.py:79   phrase -> command key
    OS_NAME,         \* aish.py:82   detect_os()
    user_input,      \* argument of the most recent parse_command call
    parsed,          \* what that call returned
    site,            \* the return statement of parse_command that produced it
    cand,            \* parser.py:124, the local cand (empty when not reached)
    cand_cmd,        \* parser.py:133, the local cand_cmd (empty when not reached)
    raw_input,       \* argument of the most recent resolve_and_run call
    runs,            \* number of resolve_and_run calls so far
    basic_hist,      \* history.json            (append_basic_history)
    enh_hist,        \* ~/.aish_command_history.json  (append_history)
    builtin_calls,   \* builtin functions invoked so far, with their arguments
    shell_calls,     \* command lines handed to run_subprocess so far
    outcome,         \* what the builtin or subprocess of the most recent call did
    macro_run,       \* macro_run_cmd: its locals and what it returned
    log,             \* the arguments of the append_history calls so far, in order
    pc,              \* per process: where it is inside append_history
    local,           \* per process: the local hist of append_history
    history,         \* context.py:18  AishContext.history
    entities,        \* context.py:19  AishContext.entities
    call,            \* the most recent call made on the context, with its arguments
    entry_ret,       \* what it gave back when it was last_command
    str_ret,         \* what it gave back when it was last_cmd_str or resolve_with_context
    rule             \* the return statement of resolve_with_context that answered

vars == <<commands_json, patterns_json, OS_NAME, user_input, parsed, site, cand, cand_cmd,
          raw_input, runs, basic_hist, enh_hist, builtin_calls, shell_calls,
          outcome, macro_run, log, pc, local,
          history, entities, call, entry_ret, str_ret, rule>>

-----------------------------------------------------------------------------
(* Bounds of the model.                                                    *)

MaxTokens == 2      \* tokens in a generated input line
MaxRuns == 2        \* resolve_and_run calls in one session
MaxHistory == 2     \* AishContext.update calls on one context
MaxAppends == 3     \* append_history calls of a process that has the file to itself
MaxShared == 1      \* append_history calls of each process that shares the file

-----------------------------------------------------------------------------
(* Python str primitives.                                                  *)

Char(s, i) == SubSeq(s, i, i)

\* The whitespace characters the inputs use (str.strip, str.split and the
\* regex class \s agree on them).
WHITESPACE == {" ", "\t"}

UPPERCASE == "ABCDEFGHIJKLMNOPQRSTUVWXYZ"
LOWERCASE == "abcdefghijklmnopqrstuvwxyz"

\* Code-point order of the characters that occur in table keys.
CODEPOINTS == " -0123456789?ABCDEFGHIJKLMNOPQRSTUVWXYZ_abcdefghijklmnopqrstuvwxyz"

Ord(c) == CHOOSE i \in 1..Len(CODEPOINTS) : Char(CODEPOINTS, i) = c

lower_char(c) ==
    IF \E i \in 1..Len(UPPERCASE) : Char(UPPERCASE, i) = c
    THEN Char(LOWERCASE, CHOOSE i \in 1..Len(UPPERCASE) : Char(UPPERCASE, i) = c)
    ELSE c

RECURSIVE lower(_)
lower(s) == IF s = "" THEN "" ELSE lower_char(Char(s, 1)) \o lower(SubSeq(s, 2, Len(s)))

RECURSIVE lstrip(_)
lstrip(s) ==
    IF s = "" THEN ""
    ELSE IF Char(s, 1) \in WHITESPACE THEN lstrip(SubSeq(s, 2, Len(s))) ELSE s

RECURSIVE rstrip(_)
rstrip(s) ==
    IF s = "" THEN ""
    ELSE IF Char(s, Len(s)) \in WHITESPACE THEN rstrip(SubSeq(s, 1, Len(s) - 1)) ELSE s

strip(s) == rstrip(lstrip(s))

startswith(s, p) == Len(s) >= Len(p) /\ SubSeq(s, 1, Len(p)) = p

\* s[n:]
slice_from(s, n) == SubSeq(s, n + 1, Len(s))

\* Length of the leading run of non-whitespace characters of s.
RECURSIVE token_len(_)
token_len(s) ==
    IF s = "" \/ Char(s, 1) \in WHITESPACE THEN 0
    ELSE 1 + token_len(SubSeq(s, 2, Len(s)))

\* str.split(): the whitespace-separated tokens, none empty.
RECURSIVE split(_)
split(s) ==
    LET t == lstrip(s)
        n == token_len(t)
    IN IF t = "" THEN <<>> ELSE <<SubSeq(t, 1, n)>> \o split(SubSeq(t, n + 1, Len(t)))

\* " ".join(tokens)
RECURSIVE join(_)
join(tokens) ==
    IF tokens = <<>> THEN ""
    ELSE IF Len(tokens) = 1 THEN tokens[1]
    ELSE tokens[1] \o " " \o join(Tail(tokens))

\* re.sub(r"\s+", " ", s): every maximal whitespace run becomes one space.
RECURSIVE re_sub_ws(_)
re_sub_ws(s) ==
    IF s = "" THEN ""
    ELSE IF Char(s, 1) \in WHITESPACE THEN " " \o re_sub_ws(lstrip(s))
    ELSE Char(s, 1) \o re_sub_ws(SubSeq(s, 2, Len(s)))

\* Trimming alone, the whitespace runs kept.
normalize_trim_only(s) == strip(s)

\* re.sub(r"\s+", " ", s.strip())
normalize(s) == re_sub_ws(strip(s))

\* Optional values: dict.get(k) and its default.
None == <<>>
Some(v) == <<v>>
dict_get(d, k) == IF k \in DOMAIN d THEN Some(d[k]) ELSE None

\* What an f-string makes of an optional string.
format(opt) == IF opt = None THEN "None" ELSE opt[1]

\* Python's str comparison a < b (code-point lexicographic).
RECURSIVE str_less(_, _)
str_less(a, b) ==
    IF b = "" THEN FALSE
    ELSE IF a = "" THEN TRUE
    ELSE IF Char(a, 1) = Char(b, 1) THEN str_less(SubSeq(a, 2, Len(a)), SubSeq(b, 2, Len(b)))
    ELSE Ord(Char(a, 1)) < Ord(Char(b, 1))

-----------------------------------------------------------------------------
(* difflib, as get_close_matches uses it: SequenceMatcher(None, a, b) with *)
(* a = the candidate and b = the word.  No junk: isjunk is None and the    *)
(* autojunk heuristic needs len(b) >= 200.  Indices are 1-based, ranges    *)
(* inclusive.                                                              *)

\* Length of the common run of a from i and b from j inside the window.
RECURSIVE run_len(_, _, _, _, _, _)
run_len(a, b, i, j, ahi, bhi) ==
    IF i > ahi \/ j > bhi THEN 0
    ELSE IF Char(a, i) # Char(b, j) THEN 0
    ELSE 1 + run_len(a, b, i + 1, j + 1, ahi, bhi)

\* Of the common runs <<i, j, k>> the one find_longest_match settles on: a
\* longest one; of those the one that starts earliest in a, and of those the
\* one that starts earliest in b.
longest_first(blocks) ==
    CHOOSE m \in blocks : \A u \in blocks :
        \/ u[3] < m[3]
        \/ u[3] = m[3] /\ (m[1] < u[1] \/ (m[1] = u[1] /\ m[2] <= u[2]))

\* SequenceMatcher.find_longest_match(alo, ahi, blo, bhi): <<i, j, k>> with
\* a[i..i+k-1] = b[j..j+k-1] inside the window, <<alo, blo, 0>> when the
\* window has no common character.
find_longest_match(a, b, alo, ahi, blo, bhi) ==
    longest_first({<<alo, blo, 0>>} \cup
                  {<<p[1], p[2], run_len(a, b, p[1], p[2], ahi, bhi)>> :
                      p \in {q \in (alo..ahi) \X (blo..bhi) : Char(a, q[1]) = Char(b, q[2])}})

\* Sum of the sizes of SequenceMatcher.get_matching_blocks: the longest
\* match m, then recursively the pieces to its left and to its right.
RECURSIVE matches(_, _, _, _, _, _)
RECURSIVE matches_around(_, _, _, _, _, _, _)
matches_around(a, b, alo, ahi, blo, bhi, m) ==
    IF m[3] = 0 THEN 0
    ELSE m[3] + matches(a, b, alo, m[1] - 1, blo, m[2] - 1)
              + matches(a, b, m[1] + m[3], ahi, m[2] + m[3], bhi)

matches(a, b, alo, ahi, blo, bhi) ==
    IF alo > ahi \/ blo > bhi THEN 0
    ELSE matches_around(a, b, alo, ahi, blo, bhi,
                        find_longest_match(a, b, alo, ahi, blo, bhi))

matched(a, b) == matches(a, b, 1, Len(a), 1, Len(b))

\* The cutoff 0.6 of parser.py:124 and :133 as the fraction 6/10.
CUTOFF_NUM == 6
CUTOFF_DEN == 10

\* The comparison made strict: ratio > cutoff.
ratio_above(m, t) == t = 0 \/ 2 * m * CUTOFF_DEN > CUTOFF_NUM * t

\* SequenceMatcher.ratio() >= cutoff for a pair with m matched characters
\* and total length t: ratio = 2.0 * m / t (1.0 when t = 0).  The division is
\* correctly rounded and 0.6 is the double nearest 6/10, so the float
\* comparison is the comparison of the fractions.  real_quick_ratio and
\* quick_ratio, which get_close_matches tests first, are upper bounds of
\* ratio and reject nothing ratio accepts.
ratio_ok(m, t) == t = 0 \/ 2 * m * CUTOFF_DEN >= CUTOFF_NUM * t

\* p < q for two scored candidates <<matched characters, total length,
\* candidate>>, as heapq.nlargest compares the pairs (ratio, candidate).
score_less(p, q) ==
    \/ p[1] * q[2] < q[1] * p[2]
    \/ p[1] * q[2] = q[1] * p[2] /\ str_less(p[3], q[3])

\* The result list of get_close_matches from the scored candidates that
\* passed the cutoff: the largest, as a list.
best_match(ok) ==
    IF ok = {} THEN <<>>
    ELSE <<(CHOOSE p \in ok : \A q \in ok \ {p} : score_less(q, p))[3]>>

close_matches(scored) == best_match({p \in scored : ratio_ok(p[1], p[2])})

\* get_close_matches(word, possibilities, n=1, cutoff=0.6): the best-scoring
\* candidate of those that pass the cutoff, as a list of at most one.
get_close_matches(word, possibilities) ==
    close_matches({<<matched(x, word), Len(x) + Len(word), x>> : x \in possibilities})

-----------------------------------------------------------------------------
(* The builtin registry and the actions parse_command returns.             *)

\* core_commands.COMMAND_REGISTRY: command name -> the function it names.
COMMAND_REGISTRY ==
    [k \in {"sysinfo", "battery", "z-omode", "zip", "unzip", "search", "renamebulk",
            "ping", "traceroute", "scanport", "ps", "kill", "wc", "formatjson",
            "history", "viewhistoryfile", "historyjson", "macro", "macro_create",
            "macro_run", "macro_list", "macro_delete", "macro_help", "macro_debug",
            "macro_test"} |->
        CASE k = "z-omode" -> "zomode_menu"
          [] k \in {"sysinfo", "battery"} -> k
          [] k = "history" -> "history_cmd"
          [] k \in {"viewhistoryfile", "historyjson"} -> "view_history_file_cmd"
          [] k \in {"macro", "macro_help"} -> "macro_help_cmd"
          [] OTHER -> k \o "_cmd"]

\* ("builtin", func, args)
builtin_action(func, args) == [kind |-> "builtin", func |-> func, args |-> args]

\* ("shell", cmd); cmd is optional because a missing template is None.
shell_action(cmd) == [kind |-> "shell", cmd |-> cmd]

\* The None that parse_command returns for an empty line.
NO_INPUT == [kind |-> "none"]

\* The lookup the other way round: "linux" first, the current OS id second.
os_template_linux_first(entry, current_os) ==
    IF "linux" \in DOMAIN entry THEN Some(entry["linux"]) ELSE dict_get(entry, current_os)

\* commands_json[key].get(current_os, commands_json[key].get("linux"))
os_template(entry, current_os) ==
    IF current_os \in DOMAIN entry THEN Some(entry[current_os]) ELSE dict_get(entry, "linux")

\* The template alone, the tail left out.
with_args_dropped(base, tail) == strip(format(base))

\* f"{base} {' '.join(tail)}".strip()
with_args(base, tail) == strip(format(base) \o " " \o join(tail))

\* parser.py:65-86, the macro phrases tested before the pattern table.
macro_phrase(ui_lower) ==
    IF startswith(ui_lower, "create macro")
    THEN Some(builtin_action(COMMAND_REGISTRY["macro_create"], <<strip(slice_from(ui_lower, 12))>>))
    ELSE IF startswith(ui_lower, "make macro")
    THEN Some(builtin_action(COMMAND_REGISTRY["macro_create"], <<strip(slice_from(ui_lower, 10))>>))
    ELSE IF startswith(ui_lower, "run macro")
    THEN Some(builtin_action(COMMAND_REGISTRY["macro_run"], <<strip(slice_from(ui_lower, 9))>>))
    ELSE IF startswith(ui_lower, "execute macro")
    THEN Some(builtin_action(COMMAND_REGISTRY["macro_run"], <<strip(slice_from(ui_lower, 13))>>))
    ELSE IF startswith(ui_lower, "list macros")
    THEN Some(builtin_action(COMMAND_REGISTRY["macro_list"], <<>>))
    ELSE IF startswith(ui_lower, "show macros")
    THEN Some(builtin_action(COMMAND_REGISTRY["macro_list"], <<>>))
    ELSE IF startswith(ui_lower, "delete macro")
    THEN Some(builtin_action(COMMAND_REGISTRY["macro_delete"], <<strip(slice_from(ui_lower, 12))>>))
    ELSE IF startswith(ui_lower, "remove macro")
    THEN Some(builtin_action(COMMAND_REGISTRY["macro_delete"], <<strip(slice_from(ui_lower, 12))>>))
    ELSE None

\* A pattern's mapped key resolved without arguments (parser.py:89-96 and
\* :126-131): None when the key is in neither table.
resolve_key(key, commands, current_os) ==
    IF key \in DOMAIN COMMAND_REGISTRY
    THEN Some(builtin_action(COMMAND_REGISTRY[key], <<>>))
    ELSE IF key \in DOMAIN commands
    THEN Some(shell_action(os_template(commands[key], current_os)))
    ELSE None

\* A first-token pattern's mapped key resolved with the tail (parser.py:109-115).
resolve_key_args(key, tail, commands, current_os) ==
    IF key \in DOMAIN COMMAND_REGISTRY
    THEN Some(builtin_action(COMMAND_REGISTRY[key], tail))
    ELSE IF key \in DOMAIN commands
    THEN Some(shell_action(Some(with_args(os_template(commands[key], current_os), tail))))
    ELSE None

\* What a call leaves behind: the action returned, the return statement that
\* answered, and the two lists of close matches.
returned(where, action, close, close_cmd) ==
    [site |-> where, action |-> action, cand |-> close, cand_cmd |-> close_cmd]

\* parser.py:141-156, the macro phrases tested again before the passthrough
\* (the name is passed only when it is not empty).
late_macro_phrase(ui_lower) ==
    LET hit == {p \in {"create macro", "make macro", "run macro", "execute macro",
                       "list macros", "show macros", "delete macro", "remove macro"} :
                   startswith(ui_lower, p)}
        prefix == CHOOSE p \in hit : TRUE
        remaining == strip(slice_from(ui_lower, Len(prefix)))
        key == CASE prefix \in {"create macro", "make macro"} -> "macro_create"
                 [] prefix \in {"run macro", "execute macro"} -> "macro_run"
                 [] prefix \in {"list macros", "show macros"} -> "macro_list"
                 [] OTHER -> "macro_delete"
    IN IF hit = {} THEN None
       ELSE Some(builtin_action(COMMAND_REGISTRY[key],
                                IF remaining # "" THEN <<remaining>> ELSE <<>>))

\* parser.py:125-159 with cand (close) and cand_cmd (close_cmd) computed.
fuzzy_tier(ui, ui_lower, tail, commands, patterns, current_os, close, close_cmd) ==
    IF close # <<>> /\ resolve_key(patterns[close[1]], commands, current_os) # None
    THEN returned("fuzzy_pattern",
                  resolve_key(patterns[close[1]], commands, current_os)[1], close, <<>>)
    ELSE IF close_cmd # <<>>
    THEN returned("fuzzy_command",
                  shell_action(Some(with_args(os_template(commands[close_cmd[1]], current_os),
                                              tail))),
                  close, close_cmd)
    ELSE IF late_macro_phrase(ui_lower) # None
    THEN returned("late_macro_phrase", late_macro_phrase(ui_lower)[1], close, close_cmd)
    ELSE returned("passthrough", shell_action(Some(ui)), close, close_cmd)

\* parser.py:103-137 with head and tail computed: the first-token tier, then
\* the fuzzy tier.
head_tier(ui, ui_lower, head, tail, commands, patterns, current_os) ==
    IF head \in DOMAIN COMMAND_REGISTRY
    THEN returned("head_builtin", builtin_action(COMMAND_REGISTRY[head], tail), <<>>, <<>>)
    ELSE IF head \in DOMAIN patterns
            /\ resolve_key_args(patterns[head], tail, commands, current_os) # None
    THEN returned("head_pattern",
                  resolve_key_args(patterns[head], tail, commands, current_os)[1], <<>>, <<>>)
    ELSE IF head \in DOMAIN commands
    THEN returned("head_command",
                  shell_action(Some(with_args(os_template(commands[head], current_os), tail))),
                  <<>>, <<>>)
    ELSE fuzzy_tier(ui, ui_lower, tail, commands, patterns, current_os,
                    get_close_matches(ui_lower, DOMAIN patterns),
                    get_close_matches(head, DOMAIN commands))

\* head = parts[0].lower() if parts else ""
head_of(parts) == IF parts # <<>> THEN lower(parts[1]) ELSE ""

\* The tail with its tokens lower-cased.
tail_lowered(parts) ==
    IF Len(parts) > 1 THEN [i \in 1..(Len(parts) - 1) |-> lower(parts[i + 1])] ELSE <<>>

\* tail = parts[1:] if len(parts) > 1 else []
tail_of(parts) == IF Len(parts) > 1 THEN Tail(parts) ELSE <<>>

\* parser.py:65-101 with ui_lower, the macro phrase and parts computed.
pattern_tier(ui, ui_lower, macro, parts, commands, patterns, current_os) ==
    IF macro # None THEN returned("macro_phrase", macro[1], <<>>, <<>>)
    ELSE IF ui_lower \in DOMAIN patterns
            /\ resolve_key(patterns[ui_lower], commands, current_os) # None
    THEN returned("exact_pattern",
                  resolve_key(patterns[ui_lower], commands, current_os)[1], <<>>, <<>>)
    ELSE head_tier(ui, ui_lower, head_of(parts), tail_of(parts),
                   commands, patterns, current_os)

\* The call without the test of parser.py:58.
parse_unguarded(ui, ui_lower, commands, patterns, current_os) ==
    pattern_tier(ui, ui_lower, macro_phrase(ui_lower), split(ui),
                 commands, patterns, current_os)

\* parser.py:57-59, then the tiers.
parse_normalized(ui, ui_lower, commands, patterns, current_os) ==
    IF ui = "" THEN returned("no_input", NO_INPUT, <<>>, <<>>)
    ELSE pattern_tier(ui, ui_lower, macro_phrase(ui_lower), split(ui),
                      commands, patterns, current_os)

\* parse_command as the module binds it (the second definition, parser.py:56;
\* it replaces the one of :40), with the return statement that answered and
\* the local cand.
parse_lowered(ui, commands, patterns, current_os) ==
    parse_normalized(ui, lower(ui), commands, patterns, current_os)

parse_trace(input, commands, patterns, current_os) ==
    parse_lowered(normalize(input), commands, patterns, current_os)

parse_command(input, commands, patterns, current_os) ==
    parse_trace(input, commands, patterns, current_os).action

-----------------------------------------------------------------------------
(* History files (aish.py:143-215).  A record's "time" field is left out.  *)

HIST_KEEP == 100        \* aish.py:166-167
SNIPPET_LEN == 200      \* aish.py:162 and the callers' [:200]

\* s[:n]
truncate(s, n) == IF Len(s) > n THEN SubSeq(s, 1, n) ELSE s

\* hist[:n]
first_n(hist, n) == IF Len(hist) > n THEN SubSeq(hist, 1, n) ELSE hist

\* hist[-n:]
last_n(hist, n) == IF Len(hist) > n THEN SubSeq(hist, Len(hist) - n + 1, Len(hist)) ELSE hist

\* append_history(entry, exit_code, output_snippet): the file's new content.
append_history(hist, entry, exit_code, output_snippet) ==
    last_n(Append(hist, [entry |-> entry, exit_code |-> exit_code,
                         output_snippet |-> truncate(output_snippet, SNIPPET_LEN)]),
           HIST_KEEP)

\* append_basic_history(entry): the file's new content.
append_basic_history(hist, entry) == Append(hist, [entry |-> entry])

-----------------------------------------------------------------------------
(* The context store and the reference resolver (context.py).              *)

\* A value of the entities dict: None, a str, or a list of str.
NONE_VALUE == [kind |-> "none", items |-> <<>>]
str_value(v) == [kind |-> "str", items |-> <<v>>]
list_value(v) == [kind |-> "list", items |-> v]

\* bool(v) for such a value.
truthy(v) ==
    IF v.kind = "none" THEN FALSE
    ELSE IF v.kind = "str" THEN v.items[1] # ""
    ELSE v.items # <<>>

\* What an f-string makes of a str value (None gives the text "None").
format_value(v) == IF v.kind = "none" THEN "None" ELSE v.items[1]

\* bool(s) for an optional str: neither None nor "".
truthy_str(opt) == opt # None /\ opt[1] # ""

\* AishContext.__init__ (context.py:17-25): self.entities.
NEW_ENTITIES ==
    ("last_files" :> list_value(<<>>)) @@ ("last_dir" :> NONE_VALUE)
        @@ ("last_host" :> NONE_VALUE) @@ ("last_process" :> NONE_VALUE)
        @@ ("last_output" :> NONE_VALUE)

\* The entry update() builds (context.py:28-34); a call's entities argument
\* is an optional mapping, and "entities or {}" stores {} for None.
entry_of(command, result, type_, ents, exit_code) ==
    [command |-> command, result |-> result, type |-> type_,
     entities |-> IF ents = None THEN <<>> ELSE ents[1], exit_code |-> exit_code]

\* context.py:37-39: self.entities[f"last_{k}"] = v for every k of a
\* non-empty mapping.
merge_entities(old, ents) ==
    IF ents = None THEN old
    ELSE [key \in DOMAIN old \cup {"last_" \o k : k \in DOMAIN ents[1]} |->
             IF \E k \in DOMAIN ents[1] : key = "last_" \o k
             THEN ents[1][CHOOSE k \in DOMAIN ents[1] : key = "last_" \o k]
             ELSE old[key]]

\* context.py:40-41: a truthy result becomes last_output.
merge_output(old, result) ==
    IF truthy_str(result) THEN [old EXCEPT !["last_output"] = str_value(result[1])] ELSE old

\* The entry put in front of the others.
prepended(hist, entry) == <<entry>> \o hist

\* context.py:35: self.history.append(entry).
appended(hist, entry) == Append(hist, entry)

\* What a call gives back: a value (None included) or an exception.
gives(v) == [raised |-> FALSE, value |-> v]
RAISES == [raised |-> TRUE, value |-> None]

\* hist[i] for a Python index i (negative: from the end); IndexError when
\* it is out of range.
py_item(hist, i) ==
    IF i >= 0 /\ i < Len(hist) THEN gives(Some(hist[i + 1]))
    ELSE IF i < 0 /\ Len(hist) + i >= 0 THEN gives(Some(hist[Len(hist) + i + 1]))
    ELSE RAISES

\* The n-th entry counted from the oldest one.
last_command_from_start(hist, n) ==
    IF Len(hist) >= n THEN py_item(hist, n - 1) ELSE gives(None)

\* AishContext.last_command(n), context.py:43-45.
last_command(hist, n) == IF Len(hist) >= n THEN py_item(hist, 0 - n) ELSE gives(None)

\* context.py:50 for the entry last_command gave: a dict with keys is truthy.
command_of(r) ==
    IF r.raised THEN RAISES
    ELSE IF r.value = None THEN gives(None)
    ELSE gives(Some(r.value[1].command))

\* AishContext.last_cmd_str(n), context.py:47-50.
last_cmd_str(hist, n) == command_of(last_command(hist, n))

\* sub in s, for two strings.
contains(s, sub) ==
    \E i \in 1..(Len(s) - Len(sub) + 1) : SubSeq(s, i, i + Len(sub) - 1) = sub

DIGITS == "0123456789"

digit_value(c) == (CHOOSE i \in 1..10 : Char(DIGITS, i) = c) - 1

is_digits(s) == s # "" /\ \A i \in 1..Len(s) : \E d \in 1..10 : Char(DIGITS, d) = Char(s, i)

RECURSIVE digits_value(_, _)
digits_value(s, acc) ==
    IF s = "" THEN acc
    ELSE digits_value(SubSeq(s, 2, Len(s)), 10 * acc + digit_value(Char(s, 1)))

\* int(token): an optional sign and ASCII digits; None stands for the
\* ValueError of anything else.
int_of(token) ==
    IF is_digits(token) THEN Some(digits_value(token, 0))
    ELSE IF Len(token) > 1 /\ Char(token, 1) = "-" /\ is_digits(SubSeq(token, 2, Len(token)))
    THEN Some(0 - digits_value(SubSeq(token, 2, Len(token)), 0))
    ELSE IF Len(token) > 1 /\ Char(token, 1) = "+" /\ is_digits(SubSeq(token, 2, Len(token)))
    THEN Some(digits_value(SubSeq(token, 2, Len(token)), 0))
    ELSE None

\* parts.index(word), counted from 1.
index_of(parts, word) ==
    CHOOSE i \in 1..Len(parts) : parts[i] = word /\ \A j \in 1..(i - 1) : parts[j] # word

in_list(parts, word) == \E i \in 1..Len(parts) : parts[i] = word

any_in(text, kws) == \E kw \in kws : contains(text, kw)

REPEAT_WORDS == {"again", "repeat", "that", "same"}
DETAIL_WORDS == {"detailed", "in detail", "show details", "with details"}
SIZE_WORDS == {"by size", "sorted by size", "largest first", "order by size"}
NAVIGATION_WORDS == {"now in", "go to", "move to", "switch to"}

\* What resolve_with_context leaves behind: the return statement that
\* answered and the string returned.
answer(where, value) == [rule |-> where, value |-> value]

\* The input only for None: an empty string is given back as it is.
or_input_for_none(opt, user_text) == IF opt # None THEN opt[1] ELSE user_text

\* x or user_input, for an optional str x.
or_input(opt, user_text) == IF truthy_str(opt) THEN opt[1] ELSE user_text

\* context.py:99-111 with parts computed.
navigation_rule(user_text, text, last_cmd, parts) ==
    IF any_in(text, NAVIGATION_WORDS) /\ truthy_str(last_cmd)
       /\ in_list(parts, "in") /\ index_of(parts, "in") + 1 <= Len(parts)
    THEN answer("navigation_in", last_cmd[1] \o " " \o parts[index_of(parts, "in") + 1])
    ELSE IF any_in(text, NAVIGATION_WORDS) /\ truthy_str(last_cmd)
            /\ in_list(parts, "to") /\ index_of(parts, "to") + 1 <= Len(parts)
    THEN answer("navigation_to", last_cmd[1] \o " " \o parts[index_of(parts, "to") + 1])
    ELSE answer("default", user_text)

\* context.py:81-96, then the navigation rule.
modifier_rules(user_text, text, last_cmd, os) ==
    IF any_in(text, DETAIL_WORDS) /\ truthy_str(last_cmd)
       /\ os \in {"Linux", "Darwin"} /\ contains(last_cmd[1], "ls")
    THEN answer("detail", last_cmd[1] \o " -la")
    ELSE IF any_in(text, DETAIL_WORDS) /\ truthy_str(last_cmd)
            /\ os \notin {"Linux", "Darwin"} /\ os = "Windows" /\ contains(last_cmd[1], "dir")
    THEN answer("detail", last_cmd[1] \o " /q /a")
    ELSE IF any_in(text, SIZE_WORDS) /\ truthy_str(last_cmd)
            /\ os \in {"Linux", "Darwin"} /\ contains(last_cmd[1], "ls")
    THEN answer("size", last_cmd[1] \o " -lhS")
    ELSE IF any_in(text, SIZE_WORDS) /\ truthy_str(last_cmd)
            /\ os \notin {"Linux", "Darwin"} /\ os = "Windows" /\ contains(last_cmd[1], "dir")
    THEN answer("size", last_cmd[1] \o " /o:-s")
    ELSE navigation_rule(user_text, text, last_cmd, split(text))

\* context.py:73-78, then the modifier rules.
pronoun_rules(user_text, text, last_cmd, ents, os) ==
    IF contains(text, "them") /\ truthy(ents["last_files"])
    THEN answer("them", "open " \o join(ents["last_files"].items))
    ELSE IF contains(text, "it") /\ truthy(ents["last_process"])
    THEN answer("it", "kill " \o format_value(ents["last_process"]))
    ELSE IF contains(text, "there") /\ truthy(ents["last_dir"])
    THEN answer("there", IF os # "Windows"
                         THEN "ls " \o format_value(ents["last_dir"])
                         ELSE "dir " \o format_value(ents["last_dir"]))
    ELSE modifier_rules(user_text, text, last_cmd, os)

\* Lines 67-68 with no try around them: an exception leaves the function.
commands_ago_unguarded(user_text, text, last_cmd, hist, ents, os, n, nth) ==
    IF n # None /\ ~nth.raised
    THEN answer("commands_ago", or_input(nth.value, user_text))
    ELSE answer("raised", "")

\* context.py:67-70 with n = int(text.split()[0]) computed (None: ValueError)
\* and nth = ctx.last_cmd_str(n); an exception of either passes on.
commands_ago_rule(user_text, text, last_cmd, hist, ents, os, n, nth) ==
    IF n # None /\ ~nth.raised
    THEN answer("commands_ago", or_input(nth.value, user_text))
    ELSE pronoun_rules(user_text, text, last_cmd, ents, os)

nth_cmd_str(hist, n) == IF n = None THEN RAISES ELSE last_cmd_str(hist, n[1])

\* context.py:62-70 with text and last_cmd computed.
history_rules(user_text, text, last_cmd, hist, ents, os) ==
    IF text \in REPEAT_WORDS THEN answer("repeat", or_input(last_cmd, user_text))
    ELSE IF contains(text, "commands ago")
    THEN commands_ago_rule(user_text, text, last_cmd, hist, ents, os,
                           int_of(split(text)[1]), nth_cmd_str(hist, int_of(split(text)[1])))
    ELSE pronoun_rules(user_text, text, last_cmd, ents, os)

\* resolve_with_context(user_input, ctx), context.py:53-111, with the return
\* statement that answered; os is the module's OS_NAME (context.py:14).
resolve_trace(user_text, hist, ents, os) ==
    history_rules(user_text, lower(strip(user_text)), last_cmd_str(hist, 1).value,
                  hist, ents, os)

resolve_with_context(user_text, hist, ents, os) == resolve_trace(user_text, hist, ents, os).value

-----------------------------------------------------------------------------
(* The tables and input lines the model draws from.                        *)

OS_IDS == {"linux", "windows", "darwin"}

CommandTables ==
    { <<>>,
      ("listdir" :> [linux |-> "ls", windows |-> "dir"]) @@ ("list" :> [linux |-> "ls -l"]),
      ("listdir" :> [linux |-> "ls -la"]),
      ("listdir" :> [darwin |-> "ls -G"]) }

PatternTables ==
    { <<>>,
      ("show info" :> "sysinfo") @@ ("ps" :> "listdir") @@ ("ps info" :> "listdir")
          @@ ("files" :> "listdir") @@ ("list macros" :> "sysinfo"),
      ("show info" :> "listdir") @@ ("files" :> "sysinfo") @@ ("ps" :> "nokey") }

Words == {"Ps", "filxy", "listdir", "lisdir", "-A"}

RECURSIVE join_with(_, _)
join_with(tokens, sep) ==
    IF Len(tokens) = 1 THEN tokens[1] ELSE tokens[1] \o sep \o join_with(Tail(tokens), sep)

\* How a line is spaced: <<the separator of its tokens, its padding>>.
Spacings == {<<" ", "">>, <<" \t", "\t ">>}

line(tokens, spacing) == spacing[2] \o join_with(tokens, spacing[1]) \o spacing[2]

TokenSeqs == UNION {[1..n -> Words] : n \in 1..MaxTokens}

\* Blank lines, phrases of the pattern tables, macro phrases (one that is a
\* pattern key, one that resembles no key of any table), and the command
\* forms macro_help_cmd prints (core_commands.py:202-206).
FixedLines == {"", " ", " \t ",
               "Show  Info", "show", "Ps Info", "files", " Files \t-A", "list -A",
               "list macros", " List \tMacros", "Remove macro", "remove  macro Old",
               "macro create Daily", "macro run Daily", "macro list",
               "macro delete Daily", "macro help", "macro"}

ParseInputs == {line(t, sp) : t \in TokenSeqs, sp \in Spacings} \cup FixedLines

\* What a builtin or a subprocess may do: succeed with output, or fail.
Outcomes ==
    { [raised |-> FALSE, code |-> 0, stdout |-> "out", stderr |-> ""],
      [raised |-> TRUE, code |-> 1, stdout |-> "", stderr |-> "err"] }

RunInputs == {"", " \t", "help", "CLS", "Ps", "Ps -A", "listdir  -A", "again"}

\* macros.json: macro name -> command lines.
STORED_MACROS ==
    ("daily" :> <<"Ps", "listdir  -A">>) @@ ("one" :> <<"Ps -A">>)
        @@ ("my macro" :> <<"again", "Ps">>)

\* Argument lists of macro_run_cmd.
MacroArgs == {<<>>, <<"daily">>, <<" Daily ">>, <<"one">>, <<"my", "macro">>, <<"nosuch">>}

\* A text of n characters.
RECURSIVE text_of(_)
text_of(n) ==
    IF n = 0 THEN ""
    ELSE IF n % 2 = 0 THEN LET half == text_of(n \div 2) IN half \o half
    ELSE "x" \o text_of(n - 1)

LONG_TEXT == text_of(SNIPPET_LEN + 1)

\* append_history(entry, exit_code, output_snippet) calls: an output one
\* character longer than the snippet, one of exactly its length, none.
AppendArgs ==
    { <<"ls", 0, LONG_TEXT>>,
      <<"Ps", 1, SubSeq(LONG_TEXT, 1, SNIPPET_LEN)>>,
      <<"cd /Var", 0, "">> }

\* What earlier sessions left in ~/.aish_command_history.json: n records.
stored_before(n) ==
    [i \in 1..n |-> [entry |-> ToString(i), exit_code |-> 0, output_snippet |-> ""]]

\* The same records as the calls that wrote them.
called_before(n) ==
    [i \in 1..n |-> [by |-> "earlier", entry |-> ToString(i), exit_code |-> 0,
                     output_snippet |-> ""]]

\* The file is absent, one record short of full, or full.
PRIOR_LENGTHS == {0, HIST_KEEP - 1, HIST_KEEP}

\* No builtin and no subprocess has run.
NO_OUTCOME == [raised |-> FALSE, code |-> 0, stdout |-> "", stderr |-> ""]

\* The processes that share the history file.
PROCESSES == {"p1", "p2"}

\* macro_run_cmd has not been called.
NO_MACRO == [at |-> "idle", commands |-> <<>>, i |-> 0, success_count |-> 0,
             reported |-> None, result |-> None]

DirectInputs == {"", " \t ", "Ps -A"}

\* platform.system() on the three platforms, and detect_os() of it
\* (utils.py:19-20).
PLATFORM_SYSTEMS == {"Linux", "Windows", "Darwin"}

detect_os(system) == lower(system)

\* update(command, result, type_, entities, exit_code) calls: the defaults
\* alone; a directory and an output with a result; files, a process, an
\* output and a user with an empty result and a failed exit; no command text
\* and an empty mapping.
UpdateCalls ==
    { <<"ls /tmp", None, "command", None, 0>>,
      <<"cd /Var", Some("ok"), "command",
        Some(("dir" :> str_value("/Var")) @@ ("output" :> str_value("seen"))), 0>>,
      <<"dir", Some(""), "process",
        Some(("files" :> list_value(<<"a.txt", "B.txt">>)) @@ ("process" :> str_value("42"))
                 @@ ("output" :> str_value("kept")) @@ ("user" :> str_value("root"))),
        1>>,
      <<"", None, "command", Some(<<>>), 0>> }

\* The n of last_command(n) and last_cmd_str(n).
LookupArgs == (0 - 1)..(MaxHistory + 1)

\* Lines given to resolve_with_context.
ResolveInputs ==
    { "again", " Again\t", "same",
      "1 commands ago", " 2 Commands Ago ", "5 commands ago", "0 commands ago",
      "-1 commands ago", "two commands ago", "1 commands ago for them",
      "open them", "kill it", "go there", "is it there with them",
      "detailed", "by size",
      "go to /Home", "go to", "switch to /a in /B", "Move To /X detailed",
      " Hello  World ", "" }

\* context.py:58 for each of these lines: text = user_input.strip().lower().
STRIPPED_LOWER == [line_in \in ResolveInputs |-> lower(strip(line_in))]

-----------------------------------------------------------------------------
(* Initial states and actions.                                             *)

\* No call of append_history is under way, none has been made, and
\* macro_run_cmd is not running.
NoAppends ==
    /\ log = <<>>
    /\ pc = [p \in PROCESSES |-> "idle"]
    /\ local = [p \in PROCESSES |-> <<>>]
    /\ macro_run = NO_MACRO

NoSession ==
    /\ raw_input = ""
    /\ runs = 0
    /\ basic_hist = <<>>
    /\ enh_hist = <<>>
    /\ builtin_calls = <<>>
    /\ shell_calls = <<>>
    /\ outcome = NO_OUTCOME
    /\ NoAppends

ctx_vars == <<history, entities, call, entry_ret, str_ret, rule>>

\* repeated: the call before it was resolve_with_context with the same text.
NO_ARGS == [result |-> None, ents |-> None]
NO_CALL == [op |-> "none", text |-> "", n |-> 0, repeated |-> FALSE, args |-> NO_ARGS]

\* AishContext() as constructed (context.py:17-25), nothing called on it.
NoContext ==
    /\ history = <<>>
    /\ entities = NEW_ENTITIES
    /\ call = NO_CALL
    /\ entry_ret = gives(None)
    /\ str_ret = gives(None)
    /\ rule = ""

\* A pure call of parse_command: any tables, any OS id, any input line; the
\* call has not returned yet.
InitParse ==
    /\ commands_json \in CommandTables
    /\ patterns_json \in PatternTables
    /\ OS_NAME \in OS_IDS
    /\ user_input \in ParseInputs
    /\ parsed = NO_INPUT
    /\ site = "called"
    /\ cand = <<>>
    /\ cand_cmd = <<>>
    /\ NoSession
    /\ NoContext

\* A shell session: the tables of aish.py:78-79 as loaded, nothing typed yet.
Init ==
    /\ commands_json \in CommandTables
    /\ patterns_json \in {t \in PatternTables : t # <<>>}
    /\ OS_NAME \in {"linux", "windows"}
    /\ user_input = ""
    /\ parsed = NO_INPUT
    /\ site = "not_called"
    /\ cand = <<>>
    /\ cand_cmd = <<>>
    /\ NoSession
    /\ NoContext

append_vars == <<log, pc, local>>

session == <<raw_input, runs, basic_hist, enh_hist, builtin_calls, shell_calls, outcome,
             macro_run, append_vars>>

\* The call returns r.
Return(r) ==
    /\ parsed' = r.action
    /\ site' = r.site
    /\ cand' = r.cand
    /\ cand_cmd' = r.cand_cmd

\* parse_command(user_input, commands_json, patterns_json, OS_NAME) returns.
ParseCommand ==
    /\ site = "called"
    /\ Return(parse_trace(user_input, commands_json, patterns_json, OS_NAME))
    /\ UNCHANGED <<commands_json, patterns_json, OS_NAME, user_input, session, ctx_vars>>

\* Only the basic history file gets the line.
record_basic_only(s, exit_code, output_snippet) ==
    /\ basic_hist' = append_basic_history(basic_hist, s)
    /\ UNCHANGED enh_hist

\* Both history files get the line (append_basic_history, append_history).
record(s, exit_code, output_snippet) ==
    /\ basic_hist' = append_basic_history(basic_hist, s)
    /\ enh_hist' = append_history(enh_hist, s, exit_code, output_snippet)

\* run_subprocess(cmd): (returncode, stdout, stderr).  It never raises; a
\* command line of None makes subprocess.run raise, which it turns into 1.
run_subprocess(cmd, o) ==
    IF cmd = None THEN [raised |-> FALSE, code |-> 1, stdout |-> "", stderr |-> "TypeError"]
    ELSE o

\* aish.py:368-385 and :325-346: the builtin runs; both files get the line
\* with 0 and the output, or with 1 and the error when it raised.
RunBuiltin(s, func, args, o) ==
    /\ builtin_calls' = Append(builtin_calls, [func |-> func, args |-> args])
    /\ UNCHANGED shell_calls
    /\ IF o.raised
       THEN record(s, 1, "Error: " \o truncate(o.stderr, SNIPPET_LEN))
       ELSE record(s, 0, truncate(o.stdout, SNIPPET_LEN))

\* aish.py:387-418: the command line goes to run_subprocess; both files get
\* the line with the exit code and stdout, or stderr when stdout is empty.
ShellDone(s, cmd, r) ==
    /\ shell_calls' = Append(shell_calls, cmd)
    /\ UNCHANGED builtin_calls
    /\ record(s, r.code,
              IF r.stdout # "" THEN truncate(r.stdout, SNIPPET_LEN)
              ELSE truncate(r.stderr, SNIPPET_LEN))

RunShell(s, cmd, o) == ShellDone(s, cmd, run_subprocess(cmd, o))

parse_vars == <<user_input, parsed, site, cand, cand_cmd>>

\* aish.py:349-418: s went through parse_command, which returned r.
RunParsed(s, r, o) ==
    /\ user_input' = s
    /\ Return(r)
    /\ IF r.action = NO_INPUT
       THEN /\ record(s, 1, "Parse error")
            /\ UNCHANGED <<builtin_calls, shell_calls>>
       ELSE IF r.action.kind = "builtin"
       THEN RunBuiltin(s, r.action.func, r.action.args, o)
       ELSE RunShell(s, r.action.cmd, o)

\* aish.py:306-418 for the stripped line s.
RunLine(s, o) ==
    IF s = "" \/ lower(s) \in {"help", "?", "menu"}
    THEN UNCHANGED <<parse_vars, basic_hist, enh_hist, builtin_calls, shell_calls>>
    ELSE IF lower(s) \in {"clear", "cls"}
    THEN /\ shell_calls' = Append(shell_calls,
                                  Some(IF OS_NAME = "windows" THEN "cls" ELSE "clear"))
         /\ record(s, 0, "Screen cleared")
         /\ UNCHANGED <<parse_vars, builtin_calls>>
    ELSE IF lower(s) \in DOMAIN COMMAND_REGISTRY
    THEN /\ RunBuiltin(s, COMMAND_REGISTRY[lower(s)], <<>>, o)
         /\ UNCHANGED parse_vars
    ELSE RunParsed(s, parse_trace(s, commands_json, patterns_json, OS_NAME), o)

\* resolve_and_run(raw_input), aish.py:305-418.  o is what the builtin or
\* the subprocess does if one is run.
resolve_and_run(raw, o) ==
    /\ runs < MaxRuns
    /\ raw_input' = raw
    /\ runs' = runs + 1
    /\ outcome' = o
    /\ UNCHANGED <<commands_json, patterns_json, OS_NAME, ctx_vars, append_vars>>
    /\ RunLine(strip(raw), o)

\* A line typed at the prompt.
ResolveAndRun(raw, o) == resolve_and_run(raw, o) /\ UNCHANGED macro_run

\* What resolve_and_run returns: every return statement of aish.py:305-418
\* is a bare return, and the function ends without one.
RESOLVE_AND_RUN_RETURNS == None

\* core_commands.py:164-180: success, output = ret raises TypeError for
\* None, which the except of line 179 catches; otherwise success counts.
count_after(success_count, ret) ==
    IF ret = None THEN success_count
    ELSE IF ret[1][1] THEN success_count + 1
    ELSE success_count

\* macros.get_macro(macro_name), macros.py:55-57.
get_macro(macro_name) ==
    IF lower(strip(macro_name)) \in DOMAIN STORED_MACROS
    THEN STORED_MACROS[lower(strip(macro_name))]
    ELSE <<>>

\* macro_run_cmd(args) up to its loop, core_commands.py:140-159: it returns
\* None without arguments or without such a macro.
MacroRunCmd(args) ==
    /\ macro_run.at = "idle"
    /\ macro_run' =
           IF args = <<>> \/ get_macro(strip(join(args))) = <<>>
           THEN [macro_run EXCEPT !.at = "done"]
           ELSE [macro_run EXCEPT !.at = "running",
                                  !.commands = get_macro(strip(join(args))),
                                  !.i = 1]
    /\ UNCHANGED <<commands_json, patterns_json, OS_NAME, parse_vars, raw_input, runs,
                   basic_hist, enh_hist, builtin_calls, shell_calls, outcome,
                   append_vars, ctx_vars>>

\* The loop's state after one more command, and after the last one the
\* report and the return of core_commands.py:184-185.
macro_after(m, count) ==
    IF m.i < Len(m.commands)
    THEN [m EXCEPT !.i = m.i + 1, !.success_count = count]
    ELSE [m EXCEPT !.i = m.i + 1, !.success_count = count, !.at = "done",
                   !.reported = Some(count),
                   !.result = Some(count = Len(m.commands))]

\* One turn of the loop of core_commands.py:161-182: resolve_and_run runs
\* the command.
MacroStep(o) ==
    /\ macro_run.at = "running"
    /\ resolve_and_run(macro_run.commands[macro_run.i], o)
    /\ macro_run' = macro_after(macro_run,
                                count_after(macro_run.success_count, RESOLVE_AND_RUN_RETURNS))

\* A direct call parse_command(input, commands_json, patterns_json, OS_NAME),
\* as core_commands and the tests of a line make it.
DirectParse(input) ==
    /\ user_input' = input
    /\ Return(parse_trace(input, commands_json, patterns_json, OS_NAME))
    /\ UNCHANGED <<commands_json, patterns_json, OS_NAME, session, ctx_vars>>

\* A fresh context in a process on any of the platforms; nothing parsed,
\* nothing run.
InitContext ==
    /\ commands_json = <<>>
    /\ patterns_json = <<>>
    /\ OS_NAME \in {detect_os(p) : p \in PLATFORM_SYSTEMS}
    /\ user_input = ""
    /\ parsed = NO_INPUT
    /\ site = "not_called"
    /\ cand = <<>>
    /\ cand_cmd = <<>>
    /\ NoSession
    /\ NoContext

parser_vars == <<commands_json, patterns_json, OS_NAME, user_input, parsed, site, cand,
                 cand_cmd, session>>

\* ctx.update(command, result, type_, entities, exit_code), context.py:27-41.
Update(command, result, type_, ents, exit_code) ==
    /\ Len(history) < MaxHistory
    /\ history' = appended(history, entry_of(command, result, type_, ents, exit_code))
    /\ entities' = merge_output(merge_entities(entities, ents), result)
    /\ call' = [op |-> "update", text |-> command, n |-> 0, repeated |-> FALSE,
                args |-> [result |-> result, ents |-> ents]]
    /\ entry_ret' = gives(None)
    /\ str_ret' = gives(None)
    /\ rule' = ""
    /\ UNCHANGED parser_vars

\* ctx.last_command(n), context.py:43-45.
LastCommand(n) ==
    /\ call' = [op |-> "last_command", text |-> "", n |-> n, repeated |-> FALSE,
                args |-> NO_ARGS]
    /\ entry_ret' = last_command(history, n)
    /\ str_ret' = gives(None)
    /\ rule' = ""
    /\ UNCHANGED <<history, entities, parser_vars>>

\* ctx.last_cmd_str(n), context.py:47-50.
LastCmdStr(n) ==
    /\ call' = [op |-> "last_cmd_str", text |-> "", n |-> n, repeated |-> FALSE,
                args |-> NO_ARGS]
    /\ entry_ret' = gives(None)
    /\ str_ret' = last_cmd_str(history, n)
    /\ rule' = ""
    /\ UNCHANGED <<history, entities, parser_vars>>

\* The call returns r after taking the most recent entry off the history.
ResolvedAndPopped(text, r) ==
    /\ call' = [op |-> "resolve_with_context", text |-> text, n |-> 0,
                repeated |-> call.op = "resolve_with_context" /\ call.text = text,
                args |-> NO_ARGS]
    /\ entry_ret' = gives(None)
    /\ str_ret' = IF r.rule = "raised" THEN RAISES ELSE gives(Some(r.value))
    /\ rule' = r.rule
    /\ history' = IF history = <<>> THEN history ELSE SubSeq(history, 1, Len(history) - 1)
    /\ UNCHANGED <<entities, parser_vars>>

\* The call resolve_with_context(text, ctx) ends with r: a returned string,
\* or an exception that leaves the function (rule "raised").
Resolved(text, r) ==
    /\ call' = [op |-> "resolve_with_context", text |-> text, n |-> 0,
                repeated |-> call.op = "resolve_with_context" /\ call.text = text,
                args |-> NO_ARGS]
    /\ entry_ret' = gives(None)
    /\ str_ret' = IF r.rule = "raised" THEN RAISES ELSE gives(Some(r.value))
    /\ rule' = r.rule
    /\ UNCHANGED <<history, entities, parser_vars>>

\* resolve_with_context(text, ctx), context.py:53-111; line 58 is taken from
\* STRIPPED_LOWER.
ResolveWithContext(text) ==
    Resolved(text, history_rules(text, STRIPPED_LOWER[text], last_cmd_str(history, 1).value,
                                 history, entities, OS_NAME))

NextParse == ParseCommand

NextContext ==
    \/ \E u \in UpdateCalls : Update(u[1], u[2], u[3], u[4], u[5])
    \/ \E n \in LookupArgs : LastCommand(n)
    \/ \E n \in LookupArgs : LastCmdStr(n)
    \/ \E text \in ResolveInputs : ResolveWithContext(text)

Next ==
    \/ \E input \in DirectInputs : DirectParse(input)
    \/ \E raw \in RunInputs, o \in Outcomes : ResolveAndRun(raw, o)

\* The number of append_history calls process p has made.
calls_of(p) == Cardinality({i \in 1..Len(log) : log[i].by = p})

\* aish.py:148-167 in process p: the file is read into the local hist, the
\* record is appended to it and the list is cut to its last 100.
ReadHistory(p, entry, exit_code, output_snippet, limit) ==
    /\ pc[p] = "idle"
    /\ calls_of(p) < limit
    /\ local' = [local EXCEPT ![p] = append_history(enh_hist, entry, exit_code,
                                                    output_snippet)]
    /\ pc' = [pc EXCEPT ![p] = "write"]
    /\ log' = Append(log, [by |-> p, entry |-> entry, exit_code |-> exit_code,
                           output_snippet |-> output_snippet])
    /\ UNCHANGED <<commands_json, patterns_json, OS_NAME, parse_vars, raw_input, runs,
                   basic_hist, enh_hist, builtin_calls, shell_calls, outcome, macro_run,
                   ctx_vars>>

\* aish.py:169-170 in process p: the local hist replaces the file.
WriteHistory(p) ==
    /\ pc[p] = "write"
    /\ enh_hist' = local[p]
    /\ pc' = [pc EXCEPT ![p] = "idle"]
    /\ UNCHANGED <<commands_json, patterns_json, OS_NAME, parse_vars, raw_input, runs,
                   basic_hist, builtin_calls, shell_calls, outcome, macro_run,
                   log, local, ctx_vars>>

\* A process starts with the history file earlier sessions left.
InitAppend ==
    /\ commands_json = <<>>
    /\ patterns_json = <<>>
    /\ OS_NAME = "linux"
    /\ user_input = ""
    /\ parsed = NO_INPUT
    /\ site = "not_called"
    /\ cand = <<>>
    /\ cand_cmd = <<>>
    /\ raw_input = ""
    /\ runs = 0
    /\ basic_hist = <<>>
    /\ builtin_calls = <<>>
    /\ shell_calls = <<>>
    /\ outcome = NO_OUTCOME
    /\ macro_run = NO_MACRO
    /\ \E n \in PRIOR_LENGTHS : enh_hist = stored_before(n) /\ log = called_before(n)
    /\ pc = [p \in PROCESSES |-> "idle"]
    /\ local = [p \in PROCESSES |-> <<>>]
    /\ NoContext

\* One process calls append_history again and again.
NextAppend ==
    \/ \E a \in AppendArgs : ReadHistory("p1", a[1], a[2], a[3], MaxAppends)
    \/ WriteHistory("p1")

\* Two processes call it on the same file, their steps in any order.
NextShared ==
    \/ \E p \in PROCESSES, a \in AppendArgs : ReadHistory(p, a[1], a[2], a[3], MaxShared)
    \/ \E p \in PROCESSES : WriteHistory(p)

SpecAppend == InitAppend /\ [][NextAppend]_vars

SpecShared == InitAppend /\ [][NextShared]_vars

NextMacro ==
    \/ \E args \in MacroArgs : MacroRunCmd(args)
    \/ \E o \in Outcomes : MacroStep(o)

\* macro_run_cmd called once in a shell session.
SpecMacro == Init /\ [][NextMacro]_vars

\* The pure function parse_command on every table and input line.
SpecParse == InitParse /\ [][NextParse]_vars

SpecContext == InitContext /\ [][NextContext]_vars

\* A shell session.
Spec == Init /\ [][Next]_vars

-----------------------------------------------------------------------------
(* What the properties below say about a call that has returned.           *)

Returned == site \notin {"called", "not_called"}

\* The input as the claims describe it: trimmed, whitespace runs collapsed;
\* lower-cased; its tokens; its lower-cased first token; the other tokens.
Tokens == split(user_input)
Normalized == join(Tokens)
Lowered == lower(Normalized)
FirstToken == IF Tokens = <<>> THEN "" ELSE lower(Tokens[1])
Rest == IF Tokens = <<>> THEN <<>> ELSE Tail(Tokens)

MACRO_PHRASES == {"create macro", "make macro", "run macro", "execute macro",
                  "list macros", "show macros", "delete macro", "remove macro"}

BeginsWithMacroPhrase(text) == \E p \in MACRO_PHRASES : startswith(text, p)

MacroPhrased == BeginsWithMacroPhrase(Lowered)

Resolvable(key) == key \in DOMAIN COMMAND_REGISTRY \/ key \in DOMAIN commands_json

\* The template an entry offers on this OS: its own, else the "linux" one.
HasTemplate(entry) == OS_NAME \in DOMAIN entry \/ "linux" \in DOMAIN entry
Template(entry) == IF OS_NAME \in DOMAIN entry THEN entry[OS_NAME] ELSE entry["linux"]

\* "<template> <remaining tokens joined by single spaces>", trimmed.
TemplateWithRest(entry) == strip(Template(entry) \o " " \o join(Rest))

\* The action a pattern's mapped key stands for, taken without arguments.
ActionOfKey(key) ==
    IF key \in DOMAIN COMMAND_REGISTRY
    THEN [kind |-> "builtin", func |-> COMMAND_REGISTRY[key], args |-> <<>>]
    ELSE [kind |-> "shell",
          cmd |-> IF HasTemplate(commands_json[key])
                  THEN <<Template(commands_json[key])>> ELSE <<>>]

\* similarity ratio >= 0.6, the ratio being 2 x matched characters / total
\* length of both strings.  No more characters match than the shorter string
\* has, so a pair whose lengths alone rule 0.6 out is not compared.
Shorter(key, word) == IF Len(key) < Len(word) THEN Len(key) ELSE Len(word)

Similar(key, word) ==
    /\ 10 * Shorter(key, word) >= 3 * (Len(key) + Len(word))
    /\ 10 * matched(key, word) >= 3 * (Len(key) + Len(word))

-----------------------------------------------------------------------------
\* C1 (as claimed): whenever the normalized, lower-cased input is a pattern
\* key whose mapped key is a builtin name or a command-table key, the action
\* returned is the one of that mapped key; no other rule decides.
C1_ExactPatternDecides ==
    (Returned /\ Lowered \in DOMAIN patterns_json /\ Resolvable(patterns_json[Lowered]))
        => parsed = ActionOfKey(patterns_json[Lowered])

-----------------------------------------------------------------------------
\* What C2 asks of the input: non-empty, and no pattern key, builtin name or
\* command-table key equals the whole input or its first token, or is
\* similar to either at cutoff 0.6.
AllKeys == DOMAIN patterns_json \cup DOMAIN COMMAND_REGISTRY \cup DOMAIN commands_json

NoKeyLike(whole, first) ==
    /\ whole \notin AllKeys
    /\ first \notin AllKeys
    /\ \A k \in AllKeys : ~Similar(k, whole) /\ ~Similar(k, first)

MatchesNothing == Normalized # "" /\ NoKeyLike(Lowered, FirstToken)

PassedThrough == parsed = [kind |-> "shell", cmd |-> <<Normalized>>]

\* C2 (as claimed): every non-empty input that matches nothing, exactly or
\* fuzzily, comes back as the shell action of its normalized text.
C2_PassthroughOriginal == (Returned /\ MatchesNothing) => PassedThrough

\* C2 (amended): the same for every such input that does not begin with one
\* of the eight macro phrases; put the other way round, an input that is
\* answered otherwise begins with a macro phrase or matches something.
C2_Passthrough ==
    (Returned /\ ~MacroPhrased /\ ~PassedThrough) => ~MatchesNothing

C2_Witness ==
    /\ Returned /\ PassedThrough
    /\ Len(Tokens) > 1
    /\ user_input # Normalized
    /\ Normalized # Lowered
    /\ patterns_json # <<>> /\ commands_json # <<>>
    /\ ~MacroPhrased /\ MatchesNothing

-----------------------------------------------------------------------------
\* C3 (as claimed): with lower-case pattern keys, an input equal to a key
\* after trimming, collapsing whitespace and lower-casing comes back as the
\* builtin of the mapped key with no arguments, or as the shell action of the
\* mapped command's OS template.
C3_CaseInsensitiveExact ==
    (/\ Returned
     /\ \A k \in DOMAIN patterns_json : k = lower(k)
     /\ Lowered \in DOMAIN patterns_json)
        => LET key == patterns_json[Lowered]
           IN /\ key \in DOMAIN COMMAND_REGISTRY
                    => /\ parsed.kind = "builtin"
                       /\ parsed.func = COMMAND_REGISTRY[key]
                       /\ parsed.args = <<>>
              /\ (key \notin DOMAIN COMMAND_REGISTRY /\ key \in DOMAIN commands_json
                  /\ HasTemplate(commands_json[key]))
                    => /\ parsed.kind = "shell"
                       /\ parsed.cmd = <<Template(commands_json[key])>>

-----------------------------------------------------------------------------
\* Tier 1 answers: the whole input is a pattern key and its mapped key is in
\* one of the two tables.
ExactPattern == Lowered \in DOMAIN patterns_json /\ Resolvable(patterns_json[Lowered])

-----------------------------------------------------------------------------
\* What C5 asks of the input: not an exact pattern, its first token neither
\* a builtin name nor a pattern key but a command-table key (with a template
\* for this OS, its own or the "linux" one).
HeadIsCommand ==
    /\ Normalized # ""
    /\ Lowered \notin DOMAIN patterns_json
    /\ FirstToken \notin DOMAIN COMMAND_REGISTRY
    /\ FirstToken \notin DOMAIN patterns_json
    /\ FirstToken \in DOMAIN commands_json
    /\ HasTemplate(commands_json[FirstToken])

\* C5 (as claimed): such an input comes back as the shell action
\* "<template> <remaining tokens joined by single spaces>", trimmed.
C5_HeadCommand ==
    (Returned /\ HeadIsCommand)
        => parsed = [kind |-> "shell", cmd |-> <<TemplateWithRest(commands_json[FirstToken])>>]

-----------------------------------------------------------------------------
\* The tiers that resolve a command-table entry, and the key of the entry
\* each one resolves.
ENTRY_TIERS == {"exact_pattern", "head_pattern", "head_command", "fuzzy_pattern",
                "fuzzy_command"}

EntryKey ==
    CASE site = "exact_pattern" -> patterns_json[Lowered]
      [] site = "head_pattern" -> patterns_json[FirstToken]
      [] site = "head_command" -> FirstToken
      [] site = "fuzzy_pattern" -> patterns_json[cand[1]]
      [] site = "fuzzy_command" -> cand_cmd[1]

ResolvesEntry ==
    /\ site \in ENTRY_TIERS
    /\ site \in {"exact_pattern", "head_pattern", "fuzzy_pattern"}
           => EntryKey \notin DOMAIN COMMAND_REGISTRY
    /\ EntryKey \in DOMAIN commands_json

\* The tokens a tier appends to the template: none in the whole-input tiers.
Appended == IF site \in {"exact_pattern", "fuzzy_pattern"} THEN <<>> ELSE Rest

ShellOf(template) ==
    [kind |-> "shell", cmd |-> <<strip(template \o " " \o join(Appended))>>]

\* C6: in each of the five tiers, an entry without a template for the
\* current OS id but with a "linux" one gives the "linux" template verbatim,
\* and an entry with a template for the current OS id gives that one.
C6_OsFallback ==
    ResolvesEntry
        => LET entry == commands_json[EntryKey]
           IN /\ (OS_NAME \notin DOMAIN entry /\ "linux" \in DOMAIN entry)
                    => parsed = ShellOf(entry["linux"])
              /\ OS_NAME \in DOMAIN entry => parsed = ShellOf(entry[OS_NAME])

C6_Witness ==
    /\ ResolvesEntry
    /\ site = "fuzzy_pattern"
    /\ OS_NAME = "windows"
    /\ commands_json[EntryKey] = [linux |-> "ls -la"]
    /\ parsed = [kind |-> "shell", cmd |-> <<"ls -la">>]

-----------------------------------------------------------------------------
\* C7 (as claimed): an entry with neither the current OS id nor "linux"
\* counts as the empty template, so the command line is exactly the appended
\* tokens joined by spaces, never null and without a placeholder.
C7_MissingTemplateIsEmpty ==
    (ResolvesEntry /\ ~HasTemplate(commands_json[EntryKey]))
        => parsed = [kind |-> "shell", cmd |-> <<join(Appended)>>]

-----------------------------------------------------------------------------
\* C8: parse_command answers an empty or whitespace-only input with the
\* no-input sentinel and nothing else with it, and a resolve_and_run of such
\* an input runs no builtin, runs no subprocess and leaves both history
\* files as they were.
C8_BlankInput ==
    [][/\ site' \notin {"called", "not_called"}
            => (split(user_input') = <<>> <=> parsed' = NO_INPUT)
       /\ (runs' = runs + 1 /\ split(raw_input') = <<>>)
            => UNCHANGED <<basic_hist, enh_hist, builtin_calls, shell_calls>>]_vars

C8_Witness ==
    /\ site = "no_input" /\ parsed = NO_INPUT
    /\ user_input # "" /\ Tokens = <<>>
    /\ runs = 1 /\ raw_input # "" /\ split(raw_input) = <<>>
    /\ basic_hist = <<>> /\ enh_hist = <<>>
    /\ builtin_calls = <<>> /\ shell_calls = <<>>

-----------------------------------------------------------------------------
FUZZY_TIER == {"fuzzy_pattern", "fuzzy_command", "late_macro_phrase", "passthrough"}

HeadTierAnswers ==
    \/ FirstToken \in DOMAIN COMMAND_REGISTRY
    \/ FirstToken \in DOMAIN patterns_json /\ Resolvable(patterns_json[FirstToken])
    \/ FirstToken \in DOMAIN commands_json

\* C9: the fuzzy tier is reached only when tiers 1 and 2 do not answer; there
\* a pattern key is accepted exactly when 2 x matched characters / total
\* length is at least 0.6 against the lower-cased normalized input (0.6
\* itself included); with no such key the command keys are tried against the
\* first token, and then the input passes through.
C9_FuzzyCutoff ==
    site \in FUZZY_TIER
        => /\ ~ExactPattern /\ ~HeadTierAnswers
           /\ cand # <<>> <=> \E k \in DOMAIN patterns_json : Similar(k, Lowered)
           /\ cand # <<>> => cand[1] \in DOMAIN patterns_json /\ Similar(cand[1], Lowered)
           /\ site = "fuzzy_pattern" => cand # <<>>
           /\ cand = <<>>
                => IF \E k \in DOMAIN commands_json : Similar(k, FirstToken)
                   THEN site = "fuzzy_command"
                   ELSE site = "passthrough" /\ PassedThrough

\* "files" against "filxy": 3 matched characters of 10, exactly 0.6.
C9_Witness ==
    /\ site = "fuzzy_pattern"
    /\ Lowered = "filxy"
    /\ cand = <<"files">>
    /\ 10 * matched("files", Lowered) = 3 * (Len("files") + Len(Lowered))

-----------------------------------------------------------------------------
\* C10: a fuzzy match on a pattern key gives the mapped key's action with
\* none of the input's tokens (builtin with no arguments, or the bare OS
\* template); a fuzzy match of the first token on a command-table key gives
\* the OS template followed by all remaining tokens.
C10_FuzzyArguments ==
    /\ site = "fuzzy_pattern"
         => LET key == patterns_json[cand[1]]
            IN /\ key \in DOMAIN COMMAND_REGISTRY
                    => parsed = [kind |-> "builtin", func |-> COMMAND_REGISTRY[key],
                                 args |-> <<>>]
               /\ (key \notin DOMAIN COMMAND_REGISTRY /\ HasTemplate(commands_json[key]))
                    => parsed = [kind |-> "shell", cmd |-> <<Template(commands_json[key])>>]
    /\ (site = "fuzzy_command" /\ HasTemplate(commands_json[cand_cmd[1]]))
         => parsed = [kind |-> "shell",
                      cmd |-> <<TemplateWithRest(commands_json[cand_cmd[1]])>>]

C10_Witness ==
    /\ site = "fuzzy_command"
    /\ FirstToken = "lisdir" /\ cand_cmd = <<"listdir">>
    /\ Rest = <<"-A">>
    /\ parsed = [kind |-> "shell", cmd |-> <<"ls -A">>]

-----------------------------------------------------------------------------
(* What the properties below say about a call made on the context.         *)

\* The most recent call was resolve_with_context; the text it was given, that
\* text trimmed and lower-cased, and the string it returned.
Resolving == call.op = "resolve_with_context"
Given == call.text
Text == lower(strip(call.text))
Result == str_ret.value[1]

\* The command string of the n-th entry from the end (1 = most recent).
FromEnd(n) == history[Len(history) - n + 1].command

\* The text is "<n> commands ago".
Ago(text, n) == text = ToString(n) \o " commands ago"

\* The largest N the lines of the model name is beyond every history.
AgoNumbers == 1..(MaxHistory + 3)

\* C11 (as claimed): "<N> commands ago" with N >= 1 gives the command
\* string of the N-th entry from the end when N is at most the history
\* length, and the input unchanged when N is larger; it raises nothing.
C11_AgoAsClaimed(text) ==
    \A n \in AgoNumbers :
        Ago(text, n)
            => /\ ~str_ret.raised
               /\ Result = IF n <= Len(history) THEN FromEnd(n) ELSE Given

C11_CommandsAgoOriginal == Resolving => C11_AgoAsClaimed(Text)

\* C11 (amended): the same, except that an N-th entry whose command string
\* is empty counts as no entry: the input comes back unchanged.
C11_Ago(text) ==
    \A n \in AgoNumbers :
        Ago(text, n)
            => /\ ~str_ret.raised
               /\ Result = IF n <= Len(history) /\ FromEnd(n) # "" THEN FromEnd(n) ELSE Given

C11_CommandsAgo == Resolving => C11_Ago(Text)

C11_Witness ==
    /\ Resolving
    /\ Ago(Text, 2) /\ Given # Text
    /\ Len(history) = 2
    /\ history[1].command # history[2].command
    /\ Result = history[1].command /\ Result # ""

-----------------------------------------------------------------------------
REPEAT_TOKENS == {"again", "repeat", "that", "same"}

\* C12 (as claimed): an input that is a repeat token after trimming and
\* lower-casing gives the most recent entry's command string, and the input
\* itself when the history is empty, whatever the entities hold.
C12_RepeatOriginal ==
    (Resolving /\ Text \in REPEAT_TOKENS)
        => Result = IF history # <<>> THEN FromEnd(1) ELSE Given

\* C12 (amended): the same, except that a most recent entry whose command
\* string is empty counts as an empty history: the input comes back.
C12_Repeat ==
    (Resolving /\ Text \in REPEAT_TOKENS)
        => /\ ~str_ret.raised
           /\ Result = IF history # <<>> /\ FromEnd(1) # "" THEN FromEnd(1) ELSE Given

C12_Witness ==
    /\ Resolving /\ Text \in REPEAT_TOKENS /\ Given # Text
    /\ truthy(entities["last_files"]) /\ truthy(entities["last_process"])
    /\ truthy(entities["last_dir"])
    /\ Len(history) = 2
    /\ Result = history[2].command /\ Result # history[1].command

-----------------------------------------------------------------------------
\* C13: a step that is a call of resolve_with_context leaves the history and
\* the entities as they were, and when it repeats the call made just before
\* it (the same input, nothing in between) it returns what that call
\* returned: so 'again' gives the same command string every time.
C13_Step ==
    call'.op = "resolve_with_context"
        => /\ history' = history
           /\ entities' = entities
           /\ call'.repeated => str_ret' = str_ret

C13_RepeatReadOnly == [][C13_Step]_vars

C13_Witness ==
    /\ Resolving /\ call.repeated
    /\ Given = "again"
    /\ history # <<>> /\ entities # NEW_ENTITIES
    /\ Result = FromEnd(1)

-----------------------------------------------------------------------------
\* C15: resolve_with_context raises nothing, and on a context with an empty
\* history and the entities of a new context it returns the input exactly as
\* given.
C15_Identity ==
    Resolving
        => /\ ~str_ret.raised /\ str_ret.value # None
           /\ (history = <<>> /\ entities = NEW_ENTITIES) => Result = Given

C15_Witness ==
    /\ Resolving
    /\ history = <<>> /\ entities = NEW_ENTITIES
    /\ Given # Text /\ Text \in REPEAT_TOKENS
    /\ Result = Given

-----------------------------------------------------------------------------
(* The preconditions of the rules as they are stated, on the trimmed,      *)
(* lower-cased text and the context of the call.                            *)

RepeatApplies(text) == text \in REPEAT_TOKENS
AgoApplies(text) == \E n \in AgoNumbers : Ago(text, n)
ThemApplies(text) == contains(text, "them") /\ truthy(entities["last_files"])
ItApplies(text) == contains(text, "it") /\ truthy(entities["last_process"])
ThereApplies(text) == contains(text, "there") /\ truthy(entities["last_dir"])
DetailApplies(text) == any_in(text, DETAIL_WORDS) /\ history # <<>>
SizeApplies(text) == any_in(text, SIZE_WORDS) /\ history # <<>>
NavigationApplies(text) == any_in(text, NAVIGATION_WORDS) /\ history # <<>>

\* No rule before "there", the detail rule, the navigation rule applies.
NoneBeforeThere(text) ==
    ~RepeatApplies(text) /\ ~contains(text, "commands ago")
        /\ ~ThemApplies(text) /\ ~ItApplies(text)
NoneBeforeDetail(text) == NoneBeforeThere(text) /\ ~ThereApplies(text)
NoneBeforeNavigation(text) ==
    NoneBeforeDetail(text) /\ ~DetailApplies(text) /\ ~SizeApplies(text)

\* The earliest rule whose precondition holds.
EarliestRule(text) ==
    IF RepeatApplies(text) THEN "repeat"
    ELSE IF AgoApplies(text) THEN "commands_ago"
    ELSE IF ThemApplies(text) THEN "them"
    ELSE IF ItApplies(text) THEN "it"
    ELSE IF ThereApplies(text) THEN "there"
    ELSE IF DetailApplies(text) THEN "detail"
    ELSE IF SizeApplies(text) THEN "size"
    ELSE IF NavigationApplies(text) THEN "navigation"
    ELSE "default"

\* The rule whose return statement answered.
AnsweringRule ==
    IF rule \in {"navigation_in", "navigation_to"} THEN "navigation" ELSE rule

\* C14 (as claimed, refuted): the result is produced by the earliest rule, in
\* the order repeat, N commands ago, them, it, there, detail, size,
\* navigation, default, whose precondition holds.
C14_EarliestRuleAnswers == Resolving => AnsweringRule = EarliestRule(Text)

\* The refuting case: the detail rule's precondition holds and no earlier
\* one does, and the navigation rule answers.
C14_LaterRuleAnswered ==
    /\ Resolving
    /\ EarliestRule(Text) = "detail" /\ NavigationApplies(Text)
    /\ AnsweringRule = "navigation"

-----------------------------------------------------------------------------
\* C16 (as claimed, refuted): for "<N> commands ago" with N zero or negative
\* the relative lookup selects no history entry: the call gives the input
\* back, whatever the history length.
C16_NonPositiveSelectsNothing ==
    (Resolving /\ \E n \in (0 - 1)..0 : Ago(Text, n)) => Result = Given

\* The refuting case: N = 0 gives the oldest entry's command.
C16_ZeroSelectsOldest ==
    /\ Resolving /\ Ago(Text, 0)
    /\ Len(history) = 2 /\ history[1].command # history[2].command
    /\ rule = "commands_ago"
    /\ Result = history[1].command /\ Result # Given

-----------------------------------------------------------------------------
\* C17 (as claimed, refuted): when the text contains "there", no earlier rule
\* applies and last_dir is set, the result is "dir <last_dir>" when
\* detect_os() gave Windows and "ls <last_dir>" when it gave Linux or macOS.
C17_ThereByPlatform ==
    (Resolving /\ NoneBeforeThere(Text) /\ ThereApplies(Text))
        => Result = (IF OS_NAME = detect_os("Windows") THEN "dir " ELSE "ls ")
                        \o format_value(entities["last_dir"])

\* The refuting case: on Windows the answer begins with "ls".
C17_WindowsGetsLs ==
    /\ Resolving /\ NoneBeforeThere(Text) /\ ThereApplies(Text)
    /\ OS_NAME = detect_os("Windows")
    /\ Result = "ls " \o format_value(entities["last_dir"])

-----------------------------------------------------------------------------
\* C18 (as claimed, refuted): when the text contains a detail keyword, no
\* earlier rule applies and the history is not empty, the result is the most
\* recent command string followed by " -la" (Linux, macOS) or " /q /a"
\* (Windows), for the platform detect_os() gave.
C18_DetailFlag ==
    (Resolving /\ NoneBeforeDetail(Text) /\ DetailApplies(Text))
        => Result = FromEnd(1)
                        \o (IF OS_NAME = detect_os("Windows") THEN " /q /a" ELSE " -la")

\* The refuting case: on Linux, after an ls command, the input comes back.
C18_DetailIgnored ==
    /\ Resolving /\ NoneBeforeDetail(Text) /\ DetailApplies(Text)
    /\ ~NavigationApplies(Text)
    /\ OS_NAME = detect_os("Linux") /\ contains(FromEnd(1), "ls")
    /\ Result = Given

-----------------------------------------------------------------------------
\* The last token of a line.
TrailingToken(line_typed) == split(line_typed)[Len(split(line_typed))]

\* C19 (as claimed, refuted): when the text contains a navigation phrase, no
\* earlier rule applies and the history is not empty, the result is the most
\* recent command string, a space, and the trailing token of the input in
\* the case the user typed it.
C19_NavigationAsTyped ==
    (Resolving /\ NoneBeforeNavigation(Text) /\ NavigationApplies(Text))
        => Result = FromEnd(1) \o " " \o TrailingToken(Given)

\* The refuting case: the path comes back lower-cased.
C19_PathLowered ==
    /\ Resolving /\ NoneBeforeNavigation(Text) /\ NavigationApplies(Text)
    /\ FromEnd(1) # ""
    /\ TrailingToken(Given) # lower(TrailingToken(Given))
    /\ Result = FromEnd(1) \o " " \o lower(TrailingToken(Given))

-----------------------------------------------------------------------------
\* C20: the history is append-only: across a step that is an update the old
\* history is a prefix of the new one, which is longer by exactly one entry,
\* the one of the update; across every other step (last_command,
\* last_cmd_str, resolve_with_context) the history is the same sequence of
\* the same entries.
C20_Step ==
    IF call'.op = "update"
    THEN /\ Len(history') = Len(history) + 1
         /\ SubSeq(history', 1, Len(history)) = history
         /\ history'[Len(history')].command = call'.text
    ELSE history' = history

C20_AppendOnly == [][C20_Step]_vars

C20_Witness ==
    /\ call.op = "update"
    /\ Len(history) = 2
    /\ history[2].command = call.text /\ history[1].command # call.text
    /\ history[1].exit_code # history[2].exit_code

-----------------------------------------------------------------------------
\* The result of the most recent entry whose result is not empty, as an
\* entity value; None when there is no such entry.
RECURSIVE LatestResult(_)
LatestResult(hist) ==
    IF hist = <<>> THEN NONE_VALUE
    ELSE IF hist[Len(hist)].result \notin {None, Some("")}
         THEN str_value(hist[Len(hist)].result[1])
         ELSE LatestResult(SubSeq(hist, 1, Len(hist) - 1))

\* C21 (as claimed, refuted): after any updates, with any results and any
\* entities mappings, last_output is the result of the most recent history
\* entry whose result is not empty, and None when there is no such entry.
C21_LastOutputIsLatestResult == entities["last_output"] = LatestResult(history)

\* The refuting case: no entry has a result, and last_output is set.
C21_OutputWithoutResult ==
    /\ history # <<>>
    /\ LatestResult(history) = NONE_VALUE
    /\ truthy(entities["last_output"])

-----------------------------------------------------------------------------
\* What last_command(n) is said to give: nothing for an empty history, for
\* n beyond its length and for n that is no position from the end.
NthFromEnd(n) ==
    IF n >= 1 /\ n <= Len(history) THEN Some(history[Len(history) - n + 1]) ELSE None

\* C22 (as claimed, refuted): for any integer n, last_command(n) raises
\* nothing and gives the n-th entry from the end, None when there is none;
\* last_cmd_str(n) gives that entry's command, None when there is none.
C22_LastCommandTotal ==
    /\ call.op = "last_command"
           => ~entry_ret.raised /\ entry_ret.value = NthFromEnd(call.n)
    /\ call.op = "last_cmd_str"
           => /\ ~str_ret.raised
              /\ str_ret.value = IF NthFromEnd(call.n) = None THEN None
                                 ELSE Some(NthFromEnd(call.n)[1].command)

\* The refuting case: n = 0 on an empty history raises.
C22_ZeroRaises ==
    /\ call.op = "last_command" /\ call.n = 0
    /\ history = <<>>
    /\ entry_ret.raised

-----------------------------------------------------------------------------
\* The keys an update call names, as entity classes.
Provided(args) ==
    IF args.ents = None THEN {} ELSE {"last_" \o k : k \in DOMAIN args.ents[1]}

\* C23 (as claimed, refuted): an update sets last_<k> to the value given for
\* each key k of its mapping and leaves every class the mapping does not
\* name as it was, last_output changing only when the result is not empty.
C23_Step ==
    call'.op = "update"
        => /\ \A k \in DOMAIN entities' :
                  k \in Provided(call'.args)
                      => entities'[k] = call'.args.ents[1][SubSeq(k, 6, Len(k))]
           /\ \A k \in DOMAIN entities :
                  k \notin Provided(call'.args)
                      => entities'[k] =
                             IF k = "last_output" /\ truthy_str(call'.args.result)
                             THEN str_value(call'.args.result[1])
                             ELSE entities[k]

C23_LastWriterWins == [][C23_Step]_vars

\* The refuting case: the mapping gives an output, and last_output is
\* something else after the call.
C23_ProvidedOutputLost ==
    /\ call.op = "update"
    /\ "last_output" \in Provided(call.args)
    /\ entities["last_output"] # call.args.ents[1]["output"]

-----------------------------------------------------------------------------
ENTITY_CLASSES == {"last_files", "last_dir", "last_host", "last_process", "last_output"}

\* C24 (as claimed, refuted): whatever the updates, the keys of the
\* entities map are exactly the five entity classes.
C24_FixedClasses == DOMAIN entities = ENTITY_CLASSES

\* The refuting case: an update has added a class.
C24_ClassAdded ==
    /\ call.op = "update"
    /\ "last_user" \in DOMAIN entities
    /\ ENTITY_CLASSES \subseteq DOMAIN entities

-----------------------------------------------------------------------------
\* The operations of the documented forms "macro <operation> ...".
MACRO_OPERATIONS == {"create", "run", "list", "delete"}

\* The line is "macro <operation>" followed by any arguments.
MacroForm(operation) ==
    Len(Tokens) >= 2 /\ Tokens[1] = "macro" /\ Tokens[2] = operation

\* C27 (as claimed, refuted): "macro create <name>", "macro run <name>",
\* "macro list" and "macro delete <name>" resolve to the macro-create,
\* macro-run, macro-list and macro-delete builtins with the name as the
\* argument, and none of them to the macro help builtin.
C27_MacroFormsRouted ==
    Returned
        => \A operation \in MACRO_OPERATIONS :
               MacroForm(operation)
                   => /\ parsed.kind = "builtin"
                      /\ parsed.func = COMMAND_REGISTRY["macro_" \o operation]
                      /\ parsed.func # COMMAND_REGISTRY["macro_help"]
                      /\ parsed.args = SubSeq(Tokens, 3, Len(Tokens))

\* The refuting case: "macro run <name>" gives the help builtin, the
\* operation and the name as its arguments.
C27_RunGivesHelp ==
    /\ Returned
    /\ MacroForm("run") /\ Len(Tokens) = 3
    /\ parsed = builtin_action(COMMAND_REGISTRY["macro"], <<"run", Tokens[3]>>)
    /\ COMMAND_REGISTRY["macro"] = COMMAND_REGISTRY["macro_help"]
    /\ COMMAND_REGISTRY["macro"] # COMMAND_REGISTRY["macro_run"]

-----------------------------------------------------------------------------
(* What the properties below say about the lines a session has run.        *)

\* The number of builtins and command lines run so far.
Executed == Len(builtin_calls) + Len(shell_calls)

\* C25 (as claimed, refuted): every command resolve_and_run executes is
\* appended to the context store, so after k executed commands the context
\* history has k entries (and "again" resolves to the k-th of them).
C25_ContextFollowsSession == Len(history) = Executed

\* The refuting case: after one executed command "again" is typed; it is run
\* as a line of its own, the resolver was never called and the context
\* history is empty.
C25_AgainNotResolved ==
    /\ runs = 2 /\ Executed = 2
    /\ raw_input = "again"
    /\ user_input = "again" /\ Returned
    /\ Len(builtin_calls) = 1 /\ shell_calls = <<Some("again")>>
    /\ call = NO_CALL /\ history = <<>>

-----------------------------------------------------------------------------
\* The step ran a builtin; the step ran a command line.
RanBuiltin == Len(builtin_calls') = Len(builtin_calls) + 1
RanShell == Len(shell_calls') = Len(shell_calls) + 1

\* What was run failed: the builtin raised, the command line was missing or
\* its exit code was not zero.
RunFailed ==
    \/ RanBuiltin /\ outcome'.raised
    \/ RanShell /\ lower(strip(raw_input')) \notin {"clear", "cls"}
           /\ (shell_calls'[Len(shell_calls')] = None \/ outcome'.code # 0)

\* All records of the file but the last; the records kept of the old file.
AllButLast(hist) == SubSeq(hist, 1, Len(hist) - 1)
KeptBefore(hist, n) == SubSeq(hist, Len(hist) - n + 1, Len(hist))

\* C26: a step of resolve_and_run that runs a builtin or a command line,
\* whether that succeeds, exits non-zero or raises, appends exactly one
\* record to the enhanced history: the line as its command text, an exit
\* code that is not zero when the run failed (zero when it did not), and an
\* output snippet, the records before it being those of the file.
C26_Step ==
    (RanBuiltin \/ RanShell)
        => /\ enh_hist' # <<>>
           /\ Len(enh_hist') = IF Len(enh_hist) < HIST_KEEP THEN Len(enh_hist) + 1 ELSE HIST_KEEP
           /\ AllButLast(enh_hist') = KeptBefore(enh_hist, Len(enh_hist') - 1)
           /\ enh_hist'[Len(enh_hist')].entry = strip(raw_input')
           /\ (enh_hist'[Len(enh_hist')].exit_code # 0) = RunFailed
           /\ Len(enh_hist'[Len(enh_hist')].output_snippet) <= SNIPPET_LEN
           /\ (outcome'.stdout # "" /\ ~RunFailed)
                  => enh_hist'[Len(enh_hist')].output_snippet # ""

-----------------------------------------------------------------------------
\* macro_run_cmd has gone through all commands of a macro.
MacroDone == macro_run.at = "done" /\ macro_run.commands # <<>>

\* The records of the commands that completed without error.
Succeeded == {j \in 1..Len(enh_hist) : enh_hist[j].exit_code = 0}

\* Each stored command was run once, in the stored order.
RanInOrder ==
    /\ Len(enh_hist) = Len(macro_run.commands)
    /\ \A j \in 1..Len(enh_hist) : enh_hist[j].entry = strip(macro_run.commands[j])

\* C28 (as claimed, refuted): macro_run_cmd runs each stored command once,
\* in order, going on after a failure; the count it reports is the number
\* of commands that completed without error, and it returns True exactly
\* when every command did.
C28_MacroRunCounts ==
    MacroDone
        => /\ RanInOrder
           /\ macro_run.reported = Some(Cardinality(Succeeded))
           /\ macro_run.result = Some(Cardinality(Succeeded) = Len(macro_run.commands))

\* The refuting case: both commands of a macro completed without error, the
\* report says none did and the call returns False.
C28_SuccessNotCounted ==
    /\ MacroDone /\ RanInOrder
    /\ Len(macro_run.commands) = 2
    /\ Cardinality(Succeeded) = 2
    /\ macro_run.reported = Some(0)
    /\ macro_run.result = Some(FALSE)

-----------------------------------------------------------------------------
(* What the properties below say about the enhanced history file.          *)

\* No call of append_history is under way.
AllIdle == \A p \in PROCESSES : pc[p] = "idle"

\* The record a call leaves: its output cut to the snippet length.
StoredOf(c) ==
    [entry |-> c.entry, exit_code |-> c.exit_code,
     output_snippet |-> IF Len(c.output_snippet) <= SNIPPET_LEN THEN c.output_snippet
                        ELSE SubSeq(c.output_snippet, 1, SNIPPET_LEN)]

\* The number of records to expect in the file.
Kept == IF Len(log) <= HIST_KEEP THEN Len(log) ELSE HIST_KEEP

-----------------------------------------------------------------------------
\* The records of the file.
InFile == {enh_hist[j] : j \in 1..Len(enh_hist)}

\* C30 (as claimed, refuted): when two processes sharing the file have each
\* called append_history, their steps interleaved in any order, both
\* records are in the file and no record that was in it, within the cap of
\* 100, is lost.
C30_AppendsAtomic ==
    AllIdle
        => /\ Len(enh_hist) = Kept
           /\ \A i \in (Len(log) - Kept + 1)..Len(log) : StoredOf(log[i]) \in InFile

\* The refuting case: both processes have returned, the file was not full,
\* and the record of one of them is not in it.
C30_RecordLost ==
    /\ AllIdle
    /\ calls_of("p1") = 1 /\ calls_of("p2") = 1
    /\ Len(log) <= HIST_KEEP
    /\ \E i \in 1..Len(log) : log[i].by = "p1" /\ StoredOf(log[i]) \notin InFile

=============================================================================
